---- MODULE Spec2Model ----
(***************************************************************************)
(* Image request queue and request dispatcher of src/util/ajax.js.         *)
(*                                                                         *)
(* getImage admits at most MAX_PARALLEL_IMAGE_REQUESTS concurrent image    *)
(* loads; further requests wait in imageQueue and are admitted by          *)
(* advanceImageRequestQueue when an active request has its first terminal  *)
(* event.  Each admitted request is executed by makeRequest on one of the  *)
(* transports (fetch, XMLHttpRequest, or the worker's actor), and a        *)
(* successful payload is then loaded into an Image element.                *)
(***************************************************************************)
EXTENDS Integers, Sequences, FiniteSets, TLC

\* Number of image requests a behaviour submits (requests are numbered in
\* submission order).
NumRequests == 3

\* config.MAX_PARALLEL_IMAGE_REQUESTS, scaled down from the default of 16 so
\* that the ceiling is reached and exceeded within NumRequests submissions.
MAX_PARALLEL_IMAGE_REQUESTS == 1

\* Number of resetImageRequestQueue calls a behaviour makes.
MaxResets == 1

Reqs == 1..NumRequests

\* HTTP statuses a transport may report.
Statuses == {0, 200, 299, 300, 401, 404, 500}

VARIABLES
    hasFetch,          \* window.fetch && window.Request && window.AbortController
    workerActor,       \* isWorker() && self.worker && self.worker.actor
    numImageRequests,  \* module variable numImageRequests
    imageQueue,        \* module variable imageQueue: entries [id, url], url being
                       \* the scheme of requestParameters.url
    submitted,         \* number of getImage calls made by callers so far
    handle,            \* the object getImage returned: "queued" entry or "direct" handle
    cancelled,         \* queued.cancelled
    advanced,          \* the closure variable `advanced` of each dispatched request
    xfer,              \* the transport operation of each request: "none" (not
                       \* issued), in flight on "fetch", "xhr" or "actor", "body"
                       \* (fetch: response arrived, body being read), "bodyAborted",
                       \* "aborted", or "done" (the callback was called)
    img,               \* state of the Image element of each request
    responses,         \* results the transport passed to its callback, in order
    callbacks,         \* results passed to the caller's callback, in order
    cancelCalled,      \* cancel() has been called on the request's handle
    dispatched,        \* requests in the order their transport operation was issued
    payload,           \* data.byteLength of the payload being loaded into the
                       \* request's Image (-1: none)
    resets,            \* number of resetImageRequestQueue calls made
    rqDesc,            \* requestParameters of a plain makeRequest call: url, type
    rqOp,              \* its transport operation, with the values of xfer
    rqOutcome,         \* what its transport met: no response, or a response
                       \* with its status, statusText and body
    rqResults,         \* the invocations of its callback, in order
    rqCancelled        \* cancel() has been called on its handle

vars == <<hasFetch, workerActor, numImageRequests, imageQueue, submitted, handle,
          cancelled, advanced, xfer, img, responses, callbacks, cancelCalled,
          dispatched, payload, resets, rqDesc, rqOp, rqOutcome, rqResults,
          rqCancelled>>

\* The state of the plain makeRequest call.
reqVars == <<rqDesc, rqOp, rqOutcome, rqResults, rqCancelled>>

\* The requests of a sequence of queue entries, as a set and in order.
Ids(s) == {s[i].id : i \in 1..Len(s)}
IdSeq(s) == [i \in 1..Len(s) |-> s[i].id]

(***************************************************************************)
(* Request dispatcher                                                      *)
(***************************************************************************)

\* A dispatcher that prefers the Fetch API for every url.
makeRequestFetchFirst(u, fetchAvail, actorAvail) ==
    IF fetchAvail THEN "fetch"
    ELSE IF u # "file" /\ actorAvail THEN "actor"
    ELSE "xhr"

\* makeRequest: the transport that executes a request.
makeRequest(u, fetchAvail, actorAvail) ==
    IF u # "file"
      THEN IF fetchAvail THEN "fetch"
           ELSE IF actorAvail THEN "actor"
           ELSE "xhr"
      ELSE "xhr"

\* response.ok of the Fetch API.
responseOk(status) == status >= 200 /\ status < 300

\* makeFetchRequest, the then-branch on the response: the body is read when
\* response.ok, otherwise the callback gets an AJAXError.
fetchResponse(status) ==
    IF responseOk(status) THEN "body" ELSE "AJAXError"

\* An onload handler that hands over the response without parsing it.
xhrOnloadUnparsed(status, hasResponse, type, parses) ==
    IF ((status >= 200 /\ status < 300) \/ status = 0) /\ hasResponse
      THEN "ok"
      ELSE "AJAXError"

\* makeXMLHttpRequest, xhr.onload: what the callback is given.
xhrOnload(status, hasResponse, type, parses) ==
    IF ((status >= 200 /\ status < 300) \/ status = 0) /\ hasResponse
      THEN IF type = "json" /\ ~parses THEN "SyntaxError" ELSE "ok"
      ELSE "AJAXError"

\* cancel() of the handle makeRequest returns: controller.abort() or
\* xhr.abort().  An operation still waiting for its response ends silently
\* (fetch rejects with the AbortError that the outer catch silences; an
\* aborted XMLHttpRequest fires neither onload nor onerror).  A fetch whose
\* response has arrived and whose body is being read has the body promise
\* rejected, which the inner catch passes to the callback.  A finished
\* operation is not affected.
abort(x) ==
    IF x \in {"fetch", "xhr", "actor"} THEN "aborted"
    ELSE IF x = "body" THEN "bodyAborted"
    ELSE x

(***************************************************************************)
(* Image request queue                                                     *)
(***************************************************************************)

\* makeFetchRequest and makeXMLHttpRequest before they return a handle:
\* new window.Request(url, ...) and xhr.open(method, url, true) throw for a
\* url they cannot parse.
dispatchThrows(u) == u = "invalid"

\* getImage, admission of entry e: while the ceiling is reached the request
\* is pushed on imageQueue, otherwise numImageRequests is incremented and the
\* request is issued.  sent lists the entries whose transport operation was
\* issued: none when the dispatcher throws, which leaves getImage after the
\* increment.
getImageOffByOne(n, q, e) ==
    IF n > MAX_PARALLEL_IMAGE_REQUESTS
      THEN [n |-> n, q |-> Append(q, e), sent |-> <<>>]
      ELSE [n |-> n + 1, q |-> q, sent |-> <<e>>]

getImageEarlyQueue(n, q, e) ==
    IF n + 1 >= MAX_PARALLEL_IMAGE_REQUESTS
      THEN [n |-> n, q |-> Append(q, e), sent |-> <<>>]
      ELSE [n |-> n + 1, q |-> q, sent |-> <<e>>]

getImagePushFront(n, q, e) ==
    IF n >= MAX_PARALLEL_IMAGE_REQUESTS
      THEN [n |-> n, q |-> <<e>> \o q, sent |-> <<>>]
      ELSE [n |-> n + 1, q |-> q, sent |-> <<e>>]

getImage(n, q, e) ==
    IF n >= MAX_PARALLEL_IMAGE_REQUESTS
      THEN [n |-> n, q |-> Append(q, e), sent |-> <<>>]
      ELSE [n |-> n + 1, q |-> q,
            sent |-> IF dispatchThrows(e.url) THEN <<>> ELSE <<e>>]

\* The while loop of advanceImageRequestQueue: shift entries off imageQueue
\* while there is a free slot, calling getImage for those not cancelled.
RECURSIVE drainLoopLifo(_, _, _)
drainLoopLifo(n, q, canc) ==
    IF Len(q) > 0 /\ n < MAX_PARALLEL_IMAGE_REQUESTS
      THEN LET request == q[Len(q)]
               rest == SubSeq(q, 1, Len(q) - 1)
           IN  IF ~canc[request.id]
                 THEN LET g == getImage(n, rest, request)
                          d == drainLoopLifo(g.n, g.q, canc)
                      IN  [n |-> d.n, q |-> d.q, sent |-> g.sent \o d.sent]
                 ELSE drainLoopLifo(n, rest, canc)
      ELSE [n |-> n, q |-> q, sent |-> <<>>]

RECURSIVE drainLoopIgnoreCancelled(_, _, _)
drainLoopIgnoreCancelled(n, q, canc) ==
    IF Len(q) > 0 /\ n < MAX_PARALLEL_IMAGE_REQUESTS
      THEN LET request == Head(q)
               g == getImage(n, Tail(q), request)
               d == drainLoopIgnoreCancelled(g.n, g.q, canc)
           IN  [n |-> d.n, q |-> d.q, sent |-> g.sent \o d.sent]
      ELSE [n |-> n, q |-> q, sent |-> <<>>]

\* A loop that stops at a cancelled entry instead of discarding it.
drainLoopStopsAtCancelled(n, q, canc) ==
    IF Len(q) > 0 /\ n < MAX_PARALLEL_IMAGE_REQUESTS /\ ~canc[Head(q).id]
      THEN LET g == getImage(n, Tail(q), Head(q))
           IN  [n |-> g.n, q |-> g.q, sent |-> g.sent]
      ELSE [n |-> n, q |-> q, sent |-> <<>>]

\* The loop is left by the exception of a getImage call whose dispatcher
\* throws.
RECURSIVE drainLoop(_, _, _)
drainLoop(n, q, canc) ==
    IF Len(q) > 0 /\ n < MAX_PARALLEL_IMAGE_REQUESTS
      THEN LET request == Head(q)
           IN  IF ~canc[request.id]
                 THEN LET g == getImage(n, Tail(q), request)
                          d == IF dispatchThrows(request.url)
                                 THEN [n |-> g.n, q |-> g.q, sent |-> <<>>]
                                 ELSE drainLoop(g.n, g.q, canc)
                      IN  [n |-> d.n, q |-> d.q, sent |-> g.sent \o d.sent]
                 ELSE drainLoop(n, Tail(q), canc)
      ELSE [n |-> n, q |-> q, sent |-> <<>>]

\* The while loop was left by the exception of a dispatcher: q2 being the
\* queue the loop left of q, an entry it shifted was not cancelled and has a
\* url the dispatcher throws for.
drainThrows(q, q2, canc) ==
    \E i \in 1..(Len(q) - Len(q2)) : ~canc[q[i].id] /\ dispatchThrows(q[i].url)

\* advanceImageRequestQueue of a dispatched request whose `advanced` is adv.
advanceUnguarded(n, q, canc, adv) ==
    drainLoop(n - 1, q, canc)

advanceImageRequestQueue(n, q, canc, adv) ==
    IF adv
      THEN [n |-> n, q |-> q, sent |-> <<>>]
      ELSE drainLoop(n - 1, q, canc)

\* assert(numImageRequests >= 0) in advanceImageRequestQueue: it passes; or
\* it fails, and then either throws (the assert module) or was removed by
\* the build and does nothing.
assertOutcomes(n, adv) ==
    IF ~adv /\ n - 1 < 0 THEN {"thrown", "passed"} ELSE {"passed"}

\* advanceImageRequestQueue left by the exception of the assertion: advanced
\* is set and numImageRequests decremented, the loop does not run.
advanceThrown(n, q) == [n |-> n - 1, q |-> q, sent |-> <<>>]

\* getImage, img.src: an object URL made for the bytes, or transparentPngUrl
\* when data.byteLength is 0.
imageSrcAlwaysObjectURL(byteLength) == "objectURL"

imageSrc(byteLength) ==
    IF byteLength # 0 THEN "objectURL" ELSE "placeholder"

\* resetImageRequestQueue: the values it gives imageQueue and
\* numImageRequests.
resetKeepsCount == [n |-> numImageRequests, q |-> <<>>]

resetKeepsQueue == [n |-> 0, q |-> imageQueue]

resetImageRequestQueue == [n |-> 0, q |-> <<>>]

\* What cancel() of the returned object does.  The handle of a request that
\* was dispatched at once aborts the transport operation and advances the
\* queue ("live").  A queued entry's cancel() sets its cancelled flag
\* ("flag"), until the entry is dispatched: then advanceImageRequestQueue
\* replaces its cancel by the one of the handle getImage returns for it.
cancelOfNeverRewired(h, isDispatched) ==
    IF h = "queued" THEN "flag" ELSE "live"

cancelOf(h, isDispatched) ==
    IF h = "queued" /\ ~isDispatched THEN "flag" ELSE "live"

Init ==
    /\ hasFetch \in BOOLEAN
    /\ workerActor \in BOOLEAN
    /\ numImageRequests = 0
    /\ imageQueue = <<>>
    /\ submitted = 0
    /\ handle = [r \in Reqs |-> "none"]
    /\ cancelled = [r \in Reqs |-> FALSE]
    /\ advanced = [r \in Reqs |-> FALSE]
    /\ xfer = [r \in Reqs |-> "none"]
    /\ img = [r \in Reqs |-> "none"]
    /\ responses = [r \in Reqs |-> <<>>]
    /\ callbacks = [r \in Reqs |-> <<>>]
    /\ cancelCalled = [r \in Reqs |-> FALSE]
    /\ dispatched = <<>>
    /\ payload = [r \in Reqs |-> -1]
    /\ resets = 0
    /\ rqDesc = [url |-> "none", type |-> "none"]
    /\ rqOp = "none"
    /\ rqOutcome = [met |-> "nothing", status |-> -1, text |-> "", body |-> "none"]
    /\ rqResults = <<>>
    /\ rqCancelled = FALSE

\* The values the state takes.
TypeOK ==
    /\ hasFetch \in BOOLEAN
    /\ workerActor \in BOOLEAN
    /\ numImageRequests \in Int
    /\ \A i \in 1..Len(imageQueue) :
          imageQueue[i].id \in Reqs /\ imageQueue[i].url \in {"file", "http", "invalid"}
    /\ submitted \in 0..NumRequests
    /\ handle \in [Reqs -> {"none", "queued", "direct"}]
    /\ cancelled \in [Reqs -> BOOLEAN]
    /\ advanced \in [Reqs -> BOOLEAN]
    /\ xfer \in [Reqs -> {"none", "fetch", "xhr", "actor", "body", "bodyAborted",
                          "aborted", "done"}]
    /\ img \in [Reqs -> {"none", "objectURL", "placeholder", "loaded", "failed"}]
    /\ \A r \in Reqs :
          /\ \A i \in 1..Len(responses[r]) :
                responses[r][i] \in {"ok", "Error", "AJAXError"}
          /\ \A i \in 1..Len(callbacks[r]) :
                callbacks[r][i] \in {"image", "Error", "AJAXError", "DecodeError"}
    /\ cancelCalled \in [Reqs -> BOOLEAN]
    /\ \A i \in 1..Len(dispatched) : dispatched[i] \in Reqs
    /\ payload \in [Reqs -> {-1, 0, 1}]
    /\ resets \in Nat

\* The transport operations after the entries of sent were issued, base
\* giving the operation of every other request.
Issue(sent, base) ==
    [i \in Reqs |->
        IF i \in Ids(sent)
          THEN makeRequest((CHOOSE e \in {sent[k] : k \in 1..Len(sent)} : e.id = i).url,
                           hasFetch, workerActor)
          ELSE base[i]]

\* A caller's getImage(requestParameters, callback), requestParameters.url
\* having scheme u.  A call left by the exception of the dispatcher returns
\* no object.
Submit(r, u) ==
    /\ r = submitted + 1
    /\ submitted' = r
    /\ LET g == getImage(numImageRequests, imageQueue, [id |-> r, url |-> u])
       IN  /\ numImageRequests' = g.n
           /\ imageQueue' = g.q
           /\ dispatched' = dispatched \o IdSeq(g.sent)
           /\ xfer' = Issue(g.sent, xfer)
           /\ handle' = [handle EXCEPT ![r] = IF r \in Ids(g.sent) THEN "direct"
                                               ELSE IF r \in Ids(g.q) THEN "queued"
                                               ELSE "none"]
    /\ UNCHANGED <<reqVars, resets, payload>>
    /\ UNCHANGED <<hasFetch, workerActor, cancelled, advanced, img, responses,
                   callbacks, cancelCalled>>

\* The transport callback of getImage as it would be if only a payload
\* advanced the queue.
DeliverHaltsOnError(r, res, empty) ==
    LET a == IF res # "ok"
               THEN [n |-> numImageRequests, q |-> imageQueue, sent |-> <<>>]
               ELSE advanceImageRequestQueue(numImageRequests, imageQueue, cancelled,
                                             advanced[r])
    IN  /\ numImageRequests' = a.n
        /\ imageQueue' = a.q
        /\ advanced' = [advanced EXCEPT ![r] = TRUE]
        /\ dispatched' = dispatched \o IdSeq(a.sent)
        /\ xfer' = Issue(a.sent, [xfer EXCEPT ![r] = "done"])
        /\ responses' = [responses EXCEPT ![r] = Append(@, res)]
        /\ IF res # "ok"
             THEN /\ callbacks' = [callbacks EXCEPT ![r] = Append(@, res)]
                  /\ img' = img
                  /\ payload' = payload
             ELSE /\ callbacks' = callbacks
                  /\ payload' = [payload EXCEPT ![r] = IF empty THEN 0 ELSE 1]
                  /\ img' = [img EXCEPT ![r] = imageSrc(IF empty THEN 0 ELSE 1)]
        /\ UNCHANGED <<reqVars, resets, hasFetch, workerActor, submitted, handle, cancelled,
                       cancelCalled>>

\* The transport callback of getImage as it would be if a payload kept the
\* slot while it is decoded.
DeliverHoldsSlotForDecode(r, res, empty) ==
    LET a == IF res = "ok"
               THEN [n |-> numImageRequests, q |-> imageQueue, sent |-> <<>>]
               ELSE advanceImageRequestQueue(numImageRequests, imageQueue, cancelled,
                                             advanced[r])
    IN  /\ numImageRequests' = a.n
        /\ imageQueue' = a.q
        /\ advanced' = [advanced EXCEPT ![r] = (res # "ok" \/ @)]
        /\ dispatched' = dispatched \o IdSeq(a.sent)
        /\ xfer' = Issue(a.sent, [xfer EXCEPT ![r] = "done"])
        /\ responses' = [responses EXCEPT ![r] = Append(@, res)]
        /\ IF res # "ok"
             THEN /\ callbacks' = [callbacks EXCEPT ![r] = Append(@, res)]
                  /\ img' = img
                  /\ payload' = payload
             ELSE /\ callbacks' = callbacks
                  /\ payload' = [payload EXCEPT ![r] = IF empty THEN 0 ELSE 1]
                  /\ img' = [img EXCEPT ![r] = imageSrc(IF empty THEN 0 ELSE 1)]
        /\ UNCHANGED <<reqVars, resets, hasFetch, workerActor, submitted, handle, cancelled,
                       cancelCalled>>

\* The transport of request r calls the callback getImage gave it with
\* result res: the queue is advanced, then an error goes to the caller's
\* callback and a payload is put into an Image element (an object URL for
\* the bytes, or the transparent PNG when the payload is empty).  When the
\* assertion throws, the exception ends the callback before that.
Deliver(r, res, empty) ==
    \E o \in assertOutcomes(numImageRequests, advanced[r]) :
        LET a == IF o = "thrown"
                   THEN advanceThrown(numImageRequests, imageQueue)
                   ELSE advanceImageRequestQueue(numImageRequests, imageQueue,
                                                 cancelled, advanced[r])
        IN  /\ numImageRequests' = a.n
            /\ imageQueue' = a.q
            /\ advanced' = [advanced EXCEPT ![r] = TRUE]
            /\ dispatched' = dispatched \o IdSeq(a.sent)
            /\ xfer' = Issue(a.sent, [xfer EXCEPT ![r] = "done"])
            /\ responses' = [responses EXCEPT ![r] = Append(@, res)]
            /\ IF o = "thrown" \/ drainThrows(imageQueue, a.q, cancelled)
                 THEN UNCHANGED <<callbacks, img, payload>>
                 ELSE IF res # "ok"
                   THEN /\ callbacks' = [callbacks EXCEPT ![r] = Append(@, res)]
                        /\ img' = img
                        /\ payload' = payload
                   ELSE /\ callbacks' = callbacks
                        /\ payload' = [payload EXCEPT ![r] = IF empty THEN 0 ELSE 1]
                        /\ img' = [img EXCEPT ![r] = imageSrc(IF empty THEN 0 ELSE 1)]
            /\ UNCHANGED <<reqVars, resets, hasFetch, workerActor, submitted, handle,
                           cancelled, cancelCalled>>

\* xhr.onerror
XhrOnerror(r) ==
    /\ xfer[r] = "xhr"
    /\ Deliver(r, "Error", FALSE)

\* xhr.onload
XhrOnload(r) ==
    /\ xfer[r] = "xhr"
    /\ \E status \in Statuses, hasResponse \in BOOLEAN, empty \in BOOLEAN :
          Deliver(r, xhrOnload(status, hasResponse, "arrayBuffer", TRUE), empty)

\* window.fetch(request) rejects: no response was obtained.
FetchReject(r) ==
    /\ xfer[r] = "fetch"
    /\ Deliver(r, "Error", FALSE)

\* window.fetch(request) resolves with a response.
FetchResponse(r) ==
    /\ xfer[r] = "fetch"
    /\ \E status \in Statuses :
          IF fetchResponse(status) = "body"
            THEN /\ xfer' = [xfer EXCEPT ![r] = "body"]
                 /\ UNCHANGED <<reqVars, resets, payload>>
                 /\ UNCHANGED <<hasFetch, workerActor, numImageRequests, imageQueue,
                                submitted, handle, cancelled, advanced, img, responses,
                                callbacks, cancelCalled, dispatched>>
            ELSE Deliver(r, fetchResponse(status), FALSE)

\* response.arrayBuffer() resolves.
FetchBodyResolve(r) ==
    /\ xfer[r] = "body"
    /\ \E empty \in BOOLEAN : Deliver(r, "ok", empty)

\* response.arrayBuffer() rejects: the body could not be read, or the
\* request was aborted while it was being read.
FetchBodyReject(r) ==
    /\ xfer[r] \in {"body", "bodyAborted"}
    /\ Deliver(r, "Error", FALSE)

\* The actor answers a 'getResource' message with an error or a payload.
ActorReply(r) ==
    /\ xfer[r] = "actor"
    /\ \E res \in {"ok", "Error", "AJAXError"}, empty \in BOOLEAN :
          Deliver(r, res, empty)

\* img.onload: the caller's callback gets the image and the object URL is
\* revoked.
ImgOnload(r) ==
    /\ img[r] \in {"objectURL", "placeholder"}
    /\ callbacks' = [callbacks EXCEPT ![r] = Append(@, "image")]
    /\ img' = [img EXCEPT ![r] = "loaded"]
    /\ payload' = [payload EXCEPT ![r] = -1]
    /\ UNCHANGED <<reqVars, resets>>
    /\ UNCHANGED <<hasFetch, workerActor, numImageRequests, imageQueue, submitted,
                   handle, cancelled, advanced, xfer, responses, cancelCalled,
                   dispatched>>

\* An onerror handler that drops the failure.
ImgOnerrorSilent(r) ==
    /\ img[r] = "objectURL"
    /\ img' = [img EXCEPT ![r] = "failed"]
    /\ payload' = [payload EXCEPT ![r] = -1]
    /\ UNCHANGED <<reqVars, resets>>
    /\ UNCHANGED <<hasFetch, workerActor, numImageRequests, imageQueue, submitted,
                   handle, cancelled, advanced, xfer, responses, callbacks,
                   cancelCalled, dispatched>>

\* img.onerror: the bytes are not an image.
ImgOnerror(r) ==
    /\ img[r] = "objectURL"
    /\ callbacks' = [callbacks EXCEPT ![r] = Append(@, "DecodeError")]
    /\ img' = [img EXCEPT ![r] = "failed"]
    /\ payload' = [payload EXCEPT ![r] = -1]
    /\ UNCHANGED <<reqVars, resets>>
    /\ UNCHANGED <<hasFetch, workerActor, numImageRequests, imageQueue, submitted,
                   handle, cancelled, advanced, xfer, responses, cancelCalled,
                   dispatched>>

\* A caller's handle.cancel().
Cancel(r) ==
    /\ handle[r] # "none"
    /\ cancelCalled' = [cancelCalled EXCEPT ![r] = TRUE]
    /\ IF cancelOf(handle[r], xfer[r] # "none") = "flag"
         THEN /\ cancelled' = [cancelled EXCEPT ![r] = TRUE]
              /\ UNCHANGED <<numImageRequests, imageQueue, advanced, xfer, dispatched>>
         ELSE \E o \in assertOutcomes(numImageRequests, advanced[r]) :
                LET a == IF o = "thrown"
                           THEN advanceThrown(numImageRequests, imageQueue)
                           ELSE advanceImageRequestQueue(numImageRequests, imageQueue,
                                                         cancelled, advanced[r])
                IN  /\ numImageRequests' = a.n
                    /\ imageQueue' = a.q
                    /\ advanced' = [advanced EXCEPT ![r] = TRUE]
                    /\ dispatched' = dispatched \o IdSeq(a.sent)
                    /\ xfer' = Issue(a.sent, [xfer EXCEPT ![r] = abort(@)])
                    /\ cancelled' = cancelled
    /\ UNCHANGED <<reqVars, resets, payload>>
    /\ UNCHANGED <<hasFetch, workerActor, submitted, handle, img, responses, callbacks>>

Next ==
    \E r \in Reqs :
        \/ \E u \in {"file", "http"} : Submit(r, u)
        \/ XhrOnerror(r)
        \/ XhrOnload(r)
        \/ FetchReject(r)
        \/ FetchResponse(r)
        \/ FetchBodyResolve(r)
        \/ FetchBodyReject(r)
        \/ ActorReply(r)
        \/ ImgOnload(r)
        \/ ImgOnerror(r)
        \/ Cancel(r)

Spec == Init /\ [][Next]_vars

(***************************************************************************)
(* The queue with transports that end                                      *)
(***************************************************************************)

\* An event of the transport of request r.
TransportEvent(r) ==
    \/ XhrOnerror(r)
    \/ XhrOnload(r)
    \/ FetchReject(r)
    \/ FetchResponse(r)
    \/ FetchBodyResolve(r)
    \/ FetchBodyReject(r)
    \/ ActorReply(r)

\* Every transport operation that is not aborted goes on until it has called
\* its callback.
Fairness == \A r \in Reqs : WF_vars(TransportEvent(r))

\* Liveness is checked in a window with the Fetch API, for urls that are
\* not file: urls, so that every request goes through fetch and has its
\* body read in a second step.
InitLive == Init /\ hasFetch /\ ~workerActor

NextLive ==
    \E r \in Reqs :
        \/ Submit(r, "http")
        \/ FetchReject(r)
        \/ FetchResponse(r)
        \/ FetchBodyResolve(r)
        \/ FetchBodyReject(r)
        \/ ImgOnload(r)
        \/ ImgOnerror(r)
        \/ Cancel(r)

SpecLive == InitLive /\ [][NextLive]_vars /\ Fairness

(***************************************************************************)
(* The queue with a dispatcher that throws                                 *)
(***************************************************************************)

\* Callers may pass a url that new window.Request or xhr.open reject, in a
\* window with or without the Fetch API.
InitThrow == Init /\ ~workerActor

NextThrow ==
    \E r \in Reqs :
        \/ \E u \in {"file", "http", "invalid"} : Submit(r, u)
        \/ XhrOnerror(r)
        \/ XhrOnload(r)
        \/ FetchReject(r)
        \/ FetchResponse(r)
        \/ FetchBodyResolve(r)
        \/ FetchBodyReject(r)
        \/ ImgOnload(r)
        \/ ImgOnerror(r)
        \/ Cancel(r)

SpecThrow == InitThrow /\ [][NextThrow]_vars

(***************************************************************************)
(* The queue with resetImageRequestQueue                                   *)
(***************************************************************************)

\* resetImageRequestQueue(), called while requests may be queued or active.
Reset ==
    /\ resets < MaxResets
    /\ resets' = resets + 1
    /\ numImageRequests' = resetImageRequestQueue.n
    /\ imageQueue' = resetImageRequestQueue.q
    /\ UNCHANGED <<reqVars, payload>>
    /\ UNCHANGED <<hasFetch, workerActor, submitted, handle, cancelled, advanced, xfer,
                   img, responses, callbacks, cancelCalled, dispatched>>

\* The reset is exercised in an environment without the Fetch API on the main
\* thread, where makeRequest issues every request through XMLHttpRequest,
\* and up to the arrival of the bytes: the decode of a payload does not
\* touch numImageRequests or imageQueue.
InitReset == Init /\ ~hasFetch /\ ~workerActor

NextReset ==
    \/ \E r \in Reqs :
        \/ \E u \in {"file", "http"} : Submit(r, u)
        \/ XhrOnerror(r)
        \/ XhrOnload(r)
        \/ Cancel(r)
    \/ Reset

SpecReset == InitReset /\ [][NextReset]_vars

(***************************************************************************)
(* A request made through makeRequest                                      *)
(***************************************************************************)

\* requestParameters.url: a file: url, a url of the Mapbox API, another url.
Urls == {"file", "mapbox", "other"}

\* requestParameters.type; "text" stands for a request without a type.
Types == {"text", "string", "json", "arrayBuffer"}

\* xhr.statusText / response.statusText
StatusTexts == {"", "Unauthorized"}

\* The body of a response: JSON text, text that is not JSON, null
\* (xhr.response === null), or a body whose reading fails.
Bodies == {"json", "text", "null", "broken"}

queueVars == <<hasFetch, workerActor, numImageRequests, imageQueue, submitted, handle,
               cancelled, advanced, xfer, img, responses, callbacks, cancelCalled,
               dispatched, payload, resets>>

\* The text the AJAXError constructor adds to the message.
TokenHint ==
    ": you may have provided an invalid Mapbox access token. See https://www.mapbox.com/api-documentation/#access-tokens-and-token-scopes"

\* isMapboxHTTPURL of ./mapbox: the url is one of the Mapbox API.
isMapboxHTTPURL(url) == url = "mapbox"

\* What a callback is called with: the error's name ("none" for a null
\* error), its message, the status and url an AJAXError carries, and whether
\* a payload is passed.
Result(name, message, status, url, data) ==
    [name |-> name, message |-> message, status |-> status, url |-> url, data |-> data]

AJAXErrorAny401(message, status, url) ==
    Result("AJAXError", IF status = 401 THEN message \o TokenHint ELSE message,
           status, url, FALSE)

\* new AJAXError(message, status, url)
AJAXError(message, status, url) ==
    Result("AJAXError",
           IF status = 401 /\ isMapboxHTTPURL(url) THEN message \o TokenHint ELSE message,
           status, url, FALSE)

\* new Error(message)
Error(message) == Result("Error", message, -1, "none", FALSE)

\* The SyntaxError JSON.parse throws.
SyntaxError == Result("SyntaxError", "Unexpected token", -1, "none", FALSE)

\* callback(null, data, cacheControl, expires)
Success == Result("none", "", -1, "none", TRUE)

\* One invocation of the callback by transport via; threw tells that the
\* callback threw.
Called(res, via, threw) == [result |-> res, via |-> via, threw |-> threw]

\* A callback invocation inside a then() that is followed by
\* .catch(err => callback(new Error(err.message))): what the callback throws
\* rejects the promise, and the catch calls the callback again.
CalledInThen(res, throws, throwsAgain) ==
    IF throws
      THEN <<Called(res, "fetch", TRUE),
             Called(Error("thrown by the callback"), "fetch", throwsAgain)>>
      ELSE <<Called(res, "fetch", FALSE)>>

\* makeRequest(requestParameters, callback)
RqCall(u, t) ==
    /\ rqOp = "none"
    /\ rqDesc' = [url |-> u, type |-> t]
    /\ rqOp' = makeRequest(u, hasFetch, workerActor)
    /\ UNCHANGED <<rqOutcome, rqResults, rqCancelled, queueVars>>

\* xhr.onerror
RqXhrOnerror ==
    /\ rqOp = "xhr"
    /\ \E text \in StatusTexts, throws \in BOOLEAN :
          /\ rqOutcome' = [met |-> "noResponse", status |-> -1, text |-> text,
                           body |-> "none"]
          /\ rqResults' = Append(rqResults, Called(Error(text), "xhr", throws))
    /\ rqOp' = "done"
    /\ UNCHANGED <<rqDesc, rqCancelled, queueVars>>

\* xhr.onload
RqXhrOnload ==
    /\ rqOp = "xhr"
    /\ \E status \in Statuses, text \in StatusTexts, body \in {"json", "text", "null"},
          throws \in BOOLEAN :
          LET x == xhrOnload(status, body # "null", rqDesc.type, body = "json")
              res == IF x = "ok" THEN Success
                     ELSE IF x = "SyntaxError" THEN SyntaxError
                     ELSE AJAXError(text, status, rqDesc.url)
          IN  /\ rqOutcome' = [met |-> "response", status |-> status, text |-> text,
                               body |-> body]
              /\ rqResults' = Append(rqResults, Called(res, "xhr", throws))
    /\ rqOp' = "done"
    /\ UNCHANGED <<rqDesc, rqCancelled, queueVars>>

\* window.fetch(request) rejects: no response was obtained.
RqFetchReject ==
    /\ rqOp = "fetch"
    /\ rqOutcome' = [met |-> "noResponse", status |-> -1, text |-> "", body |-> "none"]
    /\ \E throws \in BOOLEAN :
          rqResults' = Append(rqResults, Called(Error("Failed to fetch"), "fetch", throws))
    /\ rqOp' = "done"
    /\ UNCHANGED <<rqDesc, rqCancelled, queueVars>>

\* window.fetch(request) resolves with a response.  With response.ok the
\* body is read by response[requestParameters.type || 'text'](), which is
\* not a function for the type 'string': the TypeError goes to the outer
\* catch.
RqFetchResponse ==
    /\ rqOp = "fetch"
    /\ \E status \in Statuses, text \in StatusTexts, body \in {"json", "text", "broken"},
          throws \in BOOLEAN, throwsAgain \in BOOLEAN :
          /\ rqOutcome' = [met |-> "response", status |-> status, text |-> text,
                           body |-> body]
          /\ IF fetchResponse(status) = "body"
               THEN IF rqDesc.type = "string"
                      THEN /\ rqOp' = "done"
                           /\ rqResults' =
                                 Append(rqResults,
                                        Called(Error("response.string is not a function"),
                                               "fetch", throws))
                      ELSE /\ rqOp' = "body"
                           /\ rqResults' = rqResults
               ELSE /\ rqOp' = "done"
                    /\ rqResults' =
                          rqResults \o CalledInThen(AJAXError(text, status, rqDesc.url),
                                                    throws, throwsAgain)
    /\ UNCHANGED <<rqDesc, rqCancelled, queueVars>>

\* The body promise resolves.
RqFetchBodyResolve ==
    /\ rqOp = "body"
    /\ rqOutcome.body # "broken"
    /\ rqDesc.type = "json" => rqOutcome.body = "json"
    /\ \E throws \in BOOLEAN, throwsAgain \in BOOLEAN :
          rqResults' = rqResults \o CalledInThen(Success, throws, throwsAgain)
    /\ rqOp' = "done"
    /\ UNCHANGED <<rqDesc, rqOutcome, rqCancelled, queueVars>>

\* The body promise rejects: the request was aborted while the body was
\* read, the body could not be read, or response.json() met text that is
\* not JSON.
RqFetchBodyReject ==
    /\ \/ rqOp = "bodyAborted"
       \/ rqOp = "body" /\ rqOutcome.body = "broken"
       \/ rqOp = "body" /\ rqOutcome.body = "text" /\ rqDesc.type = "json"
    /\ \E throws \in BOOLEAN :
          rqResults' =
              Append(rqResults,
                     Called(Error(IF rqOp = "bodyAborted" THEN "The user aborted a request."
                                  ELSE IF rqOutcome.body = "broken" THEN "Failed to fetch"
                                  ELSE "Unexpected token"),
                            "fetch", throws))
    /\ rqOp' = "done"
    /\ UNCHANGED <<rqDesc, rqOutcome, rqCancelled, queueVars>>

\* The actor answers the 'getResource' message with an error or a payload.
RqActorReply ==
    /\ rqOp = "actor"
    /\ \E res \in {Success, Error("Failed to fetch")}, throws \in BOOLEAN :
          rqResults' = Append(rqResults, Called(res, "actor", throws))
    /\ rqOp' = "done"
    /\ UNCHANGED <<rqDesc, rqOutcome, rqCancelled, queueVars>>

\* cancel() of the handle makeRequest returned.
RqCancel ==
    /\ rqOp # "none"
    /\ rqCancelled' = TRUE
    /\ rqOp' = abort(rqOp)
    /\ UNCHANGED <<rqDesc, rqOutcome, rqResults, queueVars>>

NextRequest ==
    \/ \E u \in Urls, t \in Types : RqCall(u, t)
    \/ RqXhrOnerror
    \/ RqXhrOnload
    \/ RqFetchReject
    \/ RqFetchResponse
    \/ RqFetchBodyResolve
    \/ RqFetchBodyReject
    \/ RqActorReply
    \/ RqCancel

SpecRequest == Init /\ [][NextRequest]_vars

(***************************************************************************)
(* Properties                                                              *)
(***************************************************************************)

InFlight == {"fetch", "xhr", "actor"}

\* The position of request r in the order of dispatch (0: not dispatched).
Pos(r) == IF \E i \in 1..Len(dispatched) : dispatched[i] = r
            THEN CHOOSE i \in 1..Len(dispatched) : dispatched[i] = r
            ELSE 0

\* Number of requests dispatched by a step.
NewlyDispatched == Len(dispatched') - Len(dispatched)

IsSuffix(s, t) == \E k \in 0..Len(t) : s = SubSeq(t, k + 1, Len(t))

\* The queued entries that are not cancelled.
Survivors == SelectSeq(imageQueue, LAMBDA e : ~cancelled[e.id])

\* The index in imageQueue of the first entry that is not cancelled.
FirstSurvivor == CHOOSE i \in 1..Len(imageQueue) :
                    /\ ~cancelled[imageQueue[i].id]
                    /\ \A j \in 1..(i - 1) : cancelled[imageQueue[j].id]

\* Nothing but getImage calls has happened so far.
OnlySubmissions ==
    \A r \in Reqs : /\ ~cancelCalled[r]
                    /\ responses[r] = <<>>
                    /\ xfer[r] \in InFlight \cup {"none"}

\* C1: numImageRequests never exceeds MAX_PARALLEL_IMAGE_REQUESTS.
C1_ActiveCountWithinCeiling ==
    numImageRequests <= MAX_PARALLEL_IMAGE_REQUESTS

\* The ceiling is reached again after a drain pass admitted a queued request,
\* with another request still waiting.
C1_Witness ==
    /\ numImageRequests = MAX_PARALLEL_IMAGE_REQUESTS
    /\ Len(imageQueue) > 0
    /\ \E r \in Reqs : handle[r] = "queued" /\ xfer[r] \in InFlight

\* C2 (as claimed): once cancel() has been called on the handle of an image
\* request, the request's callback is not invoked any more.
C2_NoCallbackAfterCancel ==
    [][\A r \in Reqs : cancelCalled[r] => callbacks'[r] = callbacks[r]]_vars

\* Of two requests that waited in imageQueue, the later one is dispatched
\* only after the earlier one, unless the earlier one is cancelled.
C3_Order ==
    \A a, b \in Reqs :
        (a < b /\ handle[a] = "queued" /\ handle[b] = "queued"
               /\ ~cancelled[a] /\ Pos(b) > 0)
            => (Pos(a) > 0 /\ Pos(a) < Pos(b))

\* The step in which a request has its first terminal event dispatches the
\* first entry that is not cancelled and shifts off the entries up to it.
C3_Next ==
    \A r \in Reqs :
        (~advanced[r] /\ advanced'[r]) =>
            IF Survivors = <<>>
              THEN dispatched' = dispatched /\ imageQueue' = <<>>
              ELSE /\ dispatched' = Append(dispatched, Head(Survivors).id)
                   /\ imageQueue' = SubSeq(imageQueue, FirstSurvivor + 1, Len(imageQueue))

\* C3: queued requests are dispatched in submission order, and the first
\* terminal event of an active request dispatches exactly the first entry of
\* imageQueue that is not cancelled, removing it and the cancelled entries
\* before it.
C3_FifoAdmission == []C3_Order /\ [][C3_Next]_vars

\* Two requests that waited together were both dispatched.
C3_Witness ==
    \E a, b \in Reqs : /\ a < b
                       /\ handle[a] = "queued" /\ handle[b] = "queued"
                       /\ Pos(a) > 0 /\ Pos(b) > 0

\* C4: a request cancelled while it is in imageQueue is never dispatched,
\* takes no slot and never has its callback invoked.
C4_CancelledWhileQueued ==
    \A r \in Reqs :
        cancelled[r] => /\ xfer[r] = "none"
                        /\ Pos(r) = 0
                        /\ ~advanced[r]
                        /\ responses[r] = <<>>
                        /\ callbacks[r] = <<>>

\* A cancelled entry was shifted off the queue and a later one dispatched.
C4_Witness ==
    \E a, b \in Reqs : /\ a < b
                       /\ cancelled[a] /\ a \notin Ids(imageQueue)
                       /\ handle[b] = "queued" /\ Pos(b) > 0

\* A terminal event of dispatched request r: the transport calls the
\* callback, or cancel() is called on the handle.
C5_Step ==
    \A r \in Reqs :
        (xfer[r] # "none" /\ (Cancel(r) \/ responses'[r] # responses[r])) =>
            IF advanced[r]
              THEN UNCHANGED <<numImageRequests, imageQueue, dispatched>>
              ELSE /\ advanced'[r]
                   /\ numImageRequests' = numImageRequests - 1 + NewlyDispatched
                   /\ NewlyDispatched <= 1
                   /\ IsSuffix(imageQueue', imageQueue)

\* C5: the first terminal event of a dispatched request (its transport's
\* callback, or a cancel() of its handle) releases one slot and runs one
\* drain pass; every later terminal event of that request leaves
\* numImageRequests and imageQueue as they are.
C5_OneReleasePerRequest == [][C5_Step]_vars

\* A request completed and was cancelled as well, while another one waited.
C5_Witness ==
    \E r \in Reqs : /\ advanced[r] /\ cancelCalled[r] /\ responses[r] # <<>>
                    /\ Len(imageQueue) > 0

\* C6: after N <= MAX_PARALLEL_IMAGE_REQUESTS submissions and nothing else,
\* all N requests are dispatched, numImageRequests = N and imageQueue is
\* empty.
C6_AllDispatchedBelowCeiling ==
    (OnlySubmissions /\ submitted <= MAX_PARALLEL_IMAGE_REQUESTS) =>
        /\ numImageRequests = submitted
        /\ imageQueue = <<>>
        /\ dispatched = [i \in 1..submitted |-> i]
        /\ \A r \in 1..submitted : xfer[r] \in InFlight

\* The ceiling is reached by submissions alone.
C6_Witness ==
    OnlySubmissions /\ submitted = MAX_PARALLEL_IMAGE_REQUESTS

\* The state after more than MAX_PARALLEL_IMAGE_REQUESTS submissions.
C7_Saturated ==
    (OnlySubmissions /\ submitted > MAX_PARALLEL_IMAGE_REQUESTS) =>
        /\ numImageRequests = MAX_PARALLEL_IMAGE_REQUESTS
        /\ dispatched = [i \in 1..MAX_PARALLEL_IMAGE_REQUESTS |-> i]
        /\ IdSeq(imageQueue) =
              [i \in 1..(submitted - MAX_PARALLEL_IMAGE_REQUESTS) |->
                  MAX_PARALLEL_IMAGE_REQUESTS + i]
        /\ \A r \in Reqs : r > MAX_PARALLEL_IMAGE_REQUESTS => xfer[r] = "none"

\* A getImage call made while the ceiling is reached.
C7_Step ==
    (submitted' # submitted /\ numImageRequests >= MAX_PARALLEL_IMAGE_REQUESTS) =>
        /\ numImageRequests' = numImageRequests
        /\ xfer' = xfer
        /\ dispatched' = dispatched
        /\ IdSeq(imageQueue') = Append(IdSeq(imageQueue), submitted')

\* C7: after N > MAX_PARALLEL_IMAGE_REQUESTS submissions and nothing else,
\* exactly the first MAX_PARALLEL_IMAGE_REQUESTS requests are dispatched and
\* imageQueue holds the others in submission order; a submission made while
\* the ceiling is reached issues no transport operation and leaves
\* numImageRequests unchanged.
C7_QueuedAboveCeiling == []C7_Saturated /\ [][C7_Step]_vars

\* Every request was submitted and at least two of them wait.
C7_Witness ==
    /\ OnlySubmissions
    /\ submitted = NumRequests
    /\ Len(imageQueue) = NumRequests - MAX_PARALLEL_IMAGE_REQUESTS
    /\ Len(imageQueue) >= 2

\* C8 (as claimed): once cancel() of the handle makeRequest returned has
\* aborted the transport operation, the transport never calls the callback.
C8_NoCompletionAfterAbort ==
    [][\A r \in Reqs : xfer[r] \in {"aborted", "bodyAborted"}
                          => responses'[r] = responses[r]]_vars

\* C9: cancel() on the handle of an image request whose transport has
\* completed changes nothing: no slot is released, no request is dispatched,
\* no callback is invoked.
C9_CancelAfterCompletion ==
    [][\A r \in Reqs :
          (Cancel(r) /\ xfer[r] = "done") =>
              UNCHANGED <<numImageRequests, imageQueue, dispatched, xfer, advanced,
                          cancelled, img, responses, callbacks>>]_vars

\* A request that completed with a payload or an HTTP error (so it was not
\* aborted) has had cancel() called, while another request waited.
C9_Witness ==
    \E r \in Reqs : /\ xfer[r] = "done" /\ cancelCalled[r]
                    /\ responses[r] \in {<<"ok">>, <<"AJAXError">>}
                    /\ Len(imageQueue) > 0

\* C10 (as claimed): cancel() on the handle of a queued request whose entry
\* has been dispatched aborts nothing and leaves numImageRequests and
\* imageQueue unchanged.
C10_NoEffectAfterDispatch ==
    [][\A r \in Reqs :
          (Cancel(r) /\ handle[r] = "queued" /\ xfer[r] # "none") =>
              UNCHANGED <<xfer, numImageRequests, imageQueue>>]_vars

\* C10 (amended): cancel() on the handle of a queued request whose entry has
\* been dispatched acts on the live request: a transport operation still
\* running is aborted and, unless the request already had a terminal event,
\* one slot is released and one drain pass runs.  The cancelled flag is not
\* set.
C10_CancelAfterDispatchIsLive ==
    [][\A r \in Reqs :
          (Cancel(r) /\ handle[r] = "queued" /\ xfer[r] # "none") =>
              /\ xfer[r] \in InFlight => xfer'[r] = "aborted"
              /\ xfer[r] = "body" => xfer'[r] = "bodyAborted"
              /\ cancelled'[r] = cancelled[r]
              /\ advanced'[r]
              /\ IF advanced[r]
                   THEN UNCHANGED <<numImageRequests, imageQueue, dispatched>>
                   ELSE /\ numImageRequests' = numImageRequests - 1 + NewlyDispatched
                        /\ IsSuffix(imageQueue', imageQueue)]_vars

\* A request that had waited in imageQueue was aborted in flight.
C10_Witness ==
    \E r \in Reqs : handle[r] = "queued" /\ xfer[r] = "aborted" /\ ~cancelled[r]

\* C12: immediately after resetImageRequestQueue, whatever the active count
\* and the pending sequence were, numImageRequests is 0 and imageQueue is
\* empty.
C12_ResetClearsQueue ==
    [][resets' # resets => numImageRequests' = 0 /\ imageQueue' = <<>>]_vars

\* The queue was reset while one request was active, one waited and one
\* waited with its cancelled flag set: the waiting requests were never
\* dispatched and are no longer pending.
C12_Witness ==
    /\ resets > 0 /\ numImageRequests = 0 /\ imageQueue = <<>>
    /\ \E a, b, c \in Reqs :
          /\ xfer[a] \in InFlight /\ ~advanced[a]
          /\ handle[b] = "queued" /\ Pos(b) = 0 /\ ~cancelled[b]
          /\ handle[c] = "queued" /\ Pos(c) = 0 /\ cancelled[c]

\* The requests in their fetch-or-decode phase: the transport operation was
\* issued, the caller's callback has not had its final result, and cancel()
\* was not called.
FetchingOrDecoding ==
    {r \in Reqs : /\ ~cancelCalled[r]
                  /\ \/ xfer[r] \in InFlight \cup {"body"}
                     \/ img[r] \in {"objectURL", "placeholder"}}

\* C13: the number of image requests concurrently in their fetch-or-decode
\* phase never exceeds MAX_PARALLEL_IMAGE_REQUESTS.
C13_FetchOrDecodeWithinCeiling ==
    Cardinality(FetchingOrDecoding) <= MAX_PARALLEL_IMAGE_REQUESTS

\* The effect of one completion on the queue: the slot is released, the
\* cancelled entries at the head are discarded, the first entry that is not
\* cancelled is dispatched and the entries behind it stay as they are.
CompletionEffect ==
    IF Survivors = <<>>
      THEN /\ numImageRequests' = numImageRequests - 1
           /\ imageQueue' = <<>>
           /\ dispatched' = dispatched
      ELSE /\ numImageRequests' = numImageRequests
           /\ dispatched' = Append(dispatched, imageQueue[FirstSurvivor].id)
           /\ imageQueue' = SubSeq(imageQueue, FirstSurvivor + 1, Len(imageQueue))

\* The transport of r calls its callback with result res for the first
\* terminal event of r.
FirstResult(r, res) ==
    ~advanced[r] /\ responses'[r] = Append(responses[r], res)

C14_Step ==
    \A r \in Reqs :
        /\ FirstResult(r, "ok") => CompletionEffect
        /\ FirstResult(r, "Error") => CompletionEffect
        /\ FirstResult(r, "AJAXError") => CompletionEffect
        /\ callbacks'[r] = Append(callbacks[r], "DecodeError") =>
              advanced[r] /\ UNCHANGED <<numImageRequests, imageQueue, dispatched>>

\* C14: a transport error or HTTP status error of an active request has the
\* effect of a successful completion on the queue (one slot released, the
\* first pending request that is not cancelled dispatched, the rest kept in
\* order), and a decode error, whose slot was released when the payload
\* arrived, leaves the queue as it is.
C14_ErrorAdvancesQueue == [][C14_Step]_vars

\* An active request ended with an error; of the two requests waiting, the
\* cancelled first one was discarded and the second one was dispatched next.
C14_Witness ==
    \E r, c, b \in Reqs :
        /\ responses[r] \in {<<"Error">>, <<"AJAXError">>} /\ ~cancelCalled[r]
        /\ c < b /\ cancelled[c] /\ Pos(c) = 0 /\ c \notin Ids(imageQueue)
        /\ handle[b] = "queued" /\ Pos(b) = Pos(r) + 1

\* A zero-length payload is shown by the transparent PNG, without an object
\* URL for its bytes.
C20_Placeholder ==
    \A r \in Reqs : payload[r] = 0 => img[r] = "placeholder"

\* An Image loading the transparent PNG ends by loading it.
C20_Step ==
    \A r \in Reqs :
        (img[r] = "placeholder" /\ callbacks'[r] # callbacks[r]) =>
            callbacks'[r] = Append(callbacks[r], "image") /\ img'[r] = "loaded"

\* C20: a request whose transport succeeds with a zero-length payload has
\* its image source set to the placeholder image, no object URL is made for
\* the payload, and the request does not end with a decode error.
C20_EmptyPayloadIsPlaceholder == []C20_Placeholder /\ [][C20_Step]_vars

\* A request received a zero-length payload and its Image is loading the
\* placeholder.
C20_Witness ==
    \E r \in Reqs : /\ responses[r] = <<"ok">> /\ payload[r] = 0
                    /\ img[r] = "placeholder" /\ callbacks[r] = <<>>

\* C11: the callback of a request made through makeRequest is invoked at
\* most once, and exactly once when the request was not cancelled and its
\* transport operation has ended.
C11_CallbackAtMostOnce ==
    /\ Len(rqResults) <= 1
    /\ (rqOp = "done" /\ ~rqCancelled) => Len(rqResults) = 1

\* The transport the policy names for the request.
PolicyTransport ==
    CASE rqDesc.url = "file" -> "xhr"
      [] rqDesc.url # "file" /\ hasFetch -> "fetch"
      [] rqDesc.url # "file" /\ ~hasFetch /\ workerActor -> "actor"
      [] rqDesc.url # "file" /\ ~hasFetch /\ ~workerActor -> "xhr"

\* The call issues the operation on the transport of the policy.
C15_Step ==
    (rqOp = "none" /\ rqOp' # "none") =>
        /\ rqDesc'.url = "file" => rqOp' = "xhr"
        /\ (rqDesc'.url # "file" /\ hasFetch) => rqOp' = "fetch"
        /\ (rqDesc'.url # "file" /\ ~hasFetch /\ workerActor) => rqOp' = "actor"
        /\ (rqDesc'.url # "file" /\ ~hasFetch /\ ~workerActor) => rqOp' = "xhr"

\* No other transport takes part in the request.
C15_OneTransport ==
    /\ rqOp \in {"fetch", "xhr", "actor"} => rqOp = PolicyTransport
    /\ rqOp \in {"body", "bodyAborted"} => PolicyTransport = "fetch"
    /\ \A i \in 1..Len(rqResults) : rqResults[i].via = PolicyTransport

\* C15: makeRequest uses XMLHttpRequest for a file: url; otherwise fetch
\* when fetch, Request and AbortController are available; otherwise the
\* actor's getResource in a worker with an actor; otherwise XMLHttpRequest;
\* and the request is executed by that transport alone.
C15_TransportPolicy == []C15_OneTransport /\ [][C15_Step]_vars

\* A file: url was requested through XMLHttpRequest in a worker that has
\* the Fetch API and an actor.
C15_Witness ==
    /\ rqDesc.url = "file" /\ hasFetch /\ workerActor
    /\ Len(rqResults) = 1 /\ rqResults[1].via = "xhr"

\* The class of a result in the taxonomy of outcomes: success, an HTTP status
\* error (AJAXError), a parse error (the message of JSON.parse or
\* response.json()), or a transport error (any other Error).
ClassOf(res) ==
    IF res.name = "none" THEN "success"
    ELSE IF res.name = "AJAXError" THEN "HTTPStatusError"
    ELSE IF res.message = "Unexpected token" THEN "ParseError"
    ELSE "TransportError"

\* The class of result makeXMLHttpRequest delivers for a request of type t
\* whose transport met outcome o.
XhrClass(t, o) ==
    IF o.met = "noResponse" THEN "TransportError"
    ELSE IF ~(((o.status >= 200 /\ o.status < 300) \/ o.status = 0) /\ o.body # "null")
      THEN "HTTPStatusError"
    ELSE IF t = "json" /\ o.body # "json" THEN "ParseError"
    ELSE "success"

\* The class of result makeFetchRequest delivers for a request of type t
\* whose transport met outcome o.
FetchClass(t, o) ==
    IF o.met = "noResponse" THEN "TransportError"
    ELSE IF ~(o.status >= 200 /\ o.status < 300) THEN "HTTPStatusError"
    ELSE IF t = "string" THEN "TransportError"
    ELSE IF t = "json" /\ o.body # "json" THEN "ParseError"
    ELSE "success"

\* The request has its first result, for an outcome both transports can
\* meet: no response, or a response with a status and a body that was read.
Comparable ==
    /\ Len(rqResults) > 0 /\ ~rqCancelled
    /\ rqResults[1].via \in {"fetch", "xhr"}
    /\ rqOutcome.met = "noResponse" \/ rqOutcome.body \in {"json", "text"}

\* C16: for the same request and the same outcome of the transport, the
\* result makeFetchRequest delivers and the result makeXMLHttpRequest
\* delivers are of the same class.
C16_SameClassOnBothTransports ==
    Comparable =>
        /\ ClassOf(rqResults[1].result) = XhrClass(rqDesc.type, rqOutcome)
        /\ ClassOf(rqResults[1].result) = FetchClass(rqDesc.type, rqOutcome)

\* C17: a response with status 0 or in [200,300) is delivered as success
\* without an error, a response with any other status as an AJAXError with
\* that status and the url of the request, and no response as an Error that
\* has a message only (a body that does not parse is the case of C19).
C17_OutcomeClassification ==
    (Len(rqResults) > 0 /\ ~rqCancelled /\ rqResults[1].via \in {"fetch", "xhr"}) =>
        LET res == rqResults[1].result
            o == rqOutcome
        IN  /\ o.met = "noResponse" =>
                  res.name = "Error" /\ res.status = -1 /\ res.url = "none" /\ ~res.data
            /\ (/\ o.met = "response"
                /\ o.body \in {"json", "text", "null"}
                /\ ~(rqDesc.type = "json" /\ o.body = "text")) =>
                  IF o.status = 0 \/ (o.status >= 200 /\ o.status < 300)
                    THEN res.name = "none" /\ res.data
                    ELSE /\ res.name = "AJAXError"
                         /\ res.status = o.status /\ res.url = rqDesc.url

\* C18: the message of an AJAXError is the status text followed by the
\* access token guidance when the status is 401 and isMapboxHTTPURL holds
\* for the url, and the status text itself in every other case.
C18_TokenHintOnlyFor401Mapbox ==
    \A i \in 1..Len(rqResults) :
        LET res == rqResults[i].result
        IN  res.name = "AJAXError" =>
                /\ (res.status = 401 /\ isMapboxHTTPURL(res.url)) =>
                       res.message = rqOutcome.text \o TokenHint
                /\ ~(res.status = 401 /\ isMapboxHTTPURL(res.url)) =>
                       res.message = rqOutcome.text

\* A request to another host was answered with status 401.
C18_Witness ==
    \E i \in 1..Len(rqResults) :
        /\ rqResults[i].result.name = "AJAXError"
        /\ rqResults[i].result.status = 401
        /\ rqResults[i].result.url = "other"
        /\ rqResults[i].result.message = "Unauthorized"

\* A request of type json was answered, with a status the transport takes
\* for success, by a body that is not JSON, and was not cancelled.
UnparsableJSON ==
    /\ rqDesc.type = "json" /\ ~rqCancelled
    /\ rqOutcome.met = "response" /\ rqOutcome.body = "text"
    /\ \/ rqOp = "done" /\ rqResults[1].via = "xhr"
          /\ (rqOutcome.status = 0 \/ (rqOutcome.status >= 200 /\ rqOutcome.status < 300))
       \/ rqOp = "done" /\ rqResults[1].via = "fetch"
          /\ rqOutcome.status >= 200 /\ rqOutcome.status < 300

\* C19: a request of type json whose transport succeeded with a body that
\* does not parse has its callback invoked once, with the parse error and
\* without a payload, on XMLHttpRequest and on fetch.
C19_ParseErrorInsteadOfSuccess ==
    UnparsableJSON =>
        /\ Len(rqResults) = 1
        /\ rqResults[1].result.name \in {"SyntaxError", "Error"}
        /\ rqResults[1].result.message = "Unexpected token"
        /\ ~rqResults[1].result.data

\* XMLHttpRequest loaded a body that is not JSON for a request of type json.
C19_Witness ==
    UnparsableJSON /\ rqResults[1].via = "xhr" /\ rqOutcome.status = 200

\* The requests whose object URL (URL.createObjectURL, for a payload that is
\* not empty) has not been revoked: img.onload revokes it, img.onerror does
\* not.
UnreleasedObjectURLs == {r \in Reqs : img[r] \in {"objectURL", "failed"}}

\* C21: once the callback of a request has been invoked, the object URL made
\* for its payload has been revoked, and no object URL is left when no
\* request is decoding.
C21_ObjectURLsReleased ==
    /\ \A r \in Reqs : callbacks[r] # <<>> => r \notin UnreleasedObjectURLs
    /\ (\A r \in Reqs : img[r] # "objectURL") => UnreleasedObjectURLs = {}

\* C22: when the transport delivered a payload and the Image fails to load
\* it, the caller's callback is invoked with the decode error, which is
\* neither a transport error nor an AJAXError, and is not invoked with the
\* image.
C22_DecodeErrorDelivered ==
    \A r \in Reqs :
        img[r] = "failed" => responses[r] = <<"ok">> /\ callbacks[r] = <<"DecodeError">>

\* The Image of a request failed to load the payload of its transport.
C22_Witness ==
    \E r \in Reqs : /\ img[r] = "failed" /\ xfer[r] = "done"
                    /\ "DecodeError" \in {callbacks[r][i] : i \in 1..Len(callbacks[r])}

\* C23: when every transport operation ends and the queue is not reset, a
\* request that waits in imageQueue and is never cancelled is eventually
\* dispatched.
C23_QueuedEventuallyDispatched ==
    \A r \in Reqs :
        (handle[r] = "queued" /\ ~cancelled[r]) ~> (Pos(r) > 0 \/ cancelled[r])

\* The last request waited behind a cancelled entry and was dispatched when
\* the requests before it had ended.
C23_Witness ==
    \E c, r \in Reqs :
        /\ c < r /\ r = NumRequests
        /\ handle[c] = "queued" /\ cancelled[c] /\ Pos(c) = 0
        /\ handle[r] = "queued" /\ ~cancelled[r] /\ Pos(r) > 0
        /\ \A a \in Reqs : a < c => xfer[a] \in {"done", "aborted"}

\* Number of slots a step releases: the requests whose `advanced` it sets.
Released == Cardinality({r \in Reqs : ~advanced[r] /\ advanced'[r]})

\* A step admits no more requests than there are free slots once its own
\* release is counted, and numImageRequests accounts for each of them.
C24_Step ==
    /\ NewlyDispatched <= MAX_PARALLEL_IMAGE_REQUESTS - (numImageRequests - Released)
    /\ numImageRequests' = numImageRequests - Released + NewlyDispatched

\* No request is dispatched twice.
C24_DispatchedOnce ==
    \A i, j \in 1..Len(dispatched) : dispatched[i] = dispatched[j] => i = j

\* C24: the check of numImageRequests and its update are one step, in
\* getImage and in every pass of the drain loop, so under every interleaving
\* of submissions, completions and cancels no two admissions take the same
\* free slot.
C24_AdmissionIsAtomic == []C24_DispatchedOnce /\ [][C24_Step]_vars

\* The only slot was free, one request took it and the next submission found
\* it taken.
C24_Witness ==
    /\ numImageRequests = MAX_PARALLEL_IMAGE_REQUESTS
    /\ Len(imageQueue) = 1 /\ imageQueue[1].id = submitted
    /\ \E r \in Reqs : xfer[r] = "done" /\ ~cancelCalled[r]
    /\ submitted = NumRequests

\* C25: assert(numImageRequests >= 0) holds after every sequence of getImage
\* calls, completions, cancels and resetImageRequestQueue calls.
C25_ActiveCountNotNegative == numImageRequests >= 0

\* The requests whose transport operation was issued and that have not had
\* their first terminal event (the transport's callback, or cancel()).
Active == {r \in Reqs : xfer[r] # "none" /\ ~advanced[r]}

\* C26: without a reset, numImageRequests is the number of requests that
\* were dispatched and have not had their first terminal event.
C26_ActiveCountIsExact == numImageRequests = Cardinality(Active)

\* One request has ended, another was cancelled in flight and a third is
\* active.
C26_Witness ==
    \E a, b, c \in Reqs :
        /\ xfer[a] = "done" /\ xfer[b] = "aborted" /\ c \in Active
        /\ numImageRequests = 1

\* C27: whenever imageQueue is not empty, numImageRequests equals
\* MAX_PARALLEL_IMAGE_REQUESTS: a free slot and a waiting request do not
\* coexist between operations.
C27_WorkConserving ==
    imageQueue # <<>> => numImageRequests = MAX_PARALLEL_IMAGE_REQUESTS

\* A drain pass has dispatched the head entry and the entry behind it still
\* waits.
C27_Witness ==
    /\ Len(imageQueue) > 0
    /\ \E d \in Reqs : handle[d] = "queued" /\ d \in Active
    /\ \E r \in Reqs : xfer[r] = "done"

\* The transport operations getImage started that have neither called the
\* callback nor been aborted.
LiveOperations == {r \in Reqs : xfer[r] \in InFlight \cup {"body"}}

\* C28: the number of live transport operations never exceeds
\* MAX_PARALLEL_IMAGE_REQUESTS, also after resetImageRequestQueue was called
\* with requests in flight and further requests were submitted.
C28_LiveOperationsWithinCeiling ==
    Cardinality(LiveOperations) <= MAX_PARALLEL_IMAGE_REQUESTS

\* The requests that were put on imageQueue and left it without being
\* dispatched.
Gone == {r \in Reqs : handle[r] = "queued" /\ xfer[r] = "none" /\ r \notin Ids(imageQueue)}

\* A reset takes every pending request off the queue without dispatching it,
\* and a request that left the queue this way stays off it, is not
\* dispatched and has no callback invoked, whatever completes or is
\* submitted later.
C29_Step ==
    /\ resets' # resets => \A r \in Ids(imageQueue) : r \in Gone'
    /\ \A r \in Gone : r \in Gone' /\ callbacks'[r] = <<>> /\ responses'[r] = <<>>

\* C29: the requests pending when resetImageRequestQueue is called are
\* dropped: they are never dispatched afterwards, by completions of the
\* requests active before the reset or otherwise, and their callbacks are
\* never invoked.
C29_PendingDroppedByReset == [][C29_Step]_vars

\* After a reset that dropped a waiting request that is not cancelled, the
\* request active before the reset has ended and a slot is free.
C29_Witness ==
    /\ resets > 0
    /\ numImageRequests < MAX_PARALLEL_IMAGE_REQUESTS
    /\ \E a, b \in Reqs :
          /\ a < b /\ xfer[a] = "done"
          /\ b \in Gone /\ ~cancelled[b] /\ callbacks[b] = <<>>

\* A request whose callback was invoked, or whose payload is or was decoded,
\* has released its slot.
C30_ReleasedFirst ==
    \A r \in Reqs : (callbacks[r] # <<>> \/ img[r] # "none") => advanced[r]

\* The step in which the payload of an active request arrives releases the
\* slot and dispatches the next pending request, while the Image has only
\* begun to load and the caller's callback has not been invoked.
C30_Step ==
    \A r \in Reqs :
        FirstResult(r, "ok") =>
            /\ CompletionEffect
            /\ img'[r] \in {"objectURL", "placeholder"}
            /\ callbacks'[r] = <<>>

\* C30: when the bytes or the error of an active request arrive, its slot is
\* released and the next pending request dispatched no later than its own
\* callback is invoked, and on success before the decode has finished.
C30_AdvanceBeforeCallback == []C30_ReleasedFirst /\ [][C30_Step]_vars

\* The payload of a request is being decoded while the request that waited
\* behind it is already in flight.
C30_Witness ==
    \E r, q \in Reqs :
        /\ img[r] = "objectURL" /\ callbacks[r] = <<>>
        /\ handle[q] = "queued" /\ Pos(q) = Pos(r) + 1 /\ xfer[q] \in InFlight

\* The getImage call of a caller for request r is left by the exception of
\* the dispatcher.
DispatchFails(r) ==
    /\ submitted = r - 1 /\ submitted' = r
    /\ handle'[r] = "none"

\* C31: a getImage call whose transport dispatch fails synchronously leaves
\* numImageRequests as it was before the call.
C31_FailedDispatchKeepsCount ==
    [][\A r \in Reqs : DispatchFails(r) => numImageRequests' = numImageRequests]_vars

====
